---- MODULE Spec2Model ----
(***************************************************************************)
(* The session controller of frontend/src/App.js: the React component's    *)
(* state, its event handlers, and the continuations of its HTTP calls.     *)
(* JavaScript runs one handler (or one continuation after an await) to     *)
(* completion before the next event, so each is one atomic action.  The    *)
(* backend is outside the repository: a response is any well-formed value  *)
(* of the shape App.js reads, or a failure.                                *)
(***************************************************************************)
EXTENDS Integers, Sequences, FiniteSets, Bags, TLC

(* ------------------------------ bounds -------------------------------- *)

\* requests that may be awaiting their response at once
MaxInFlight == 2
\* entries the message log may grow to
MaxMessages == 4

(* ------------------------------ values -------------------------------- *)

\* A JavaScript string is a sequence of chunks; typed text is written one
\* character per chunk so that trim, toLowerCase and includes act on it.
EmptyText == <<>>
BlankText == << " " >>
BalanceText == << "H", "i" >>
TransferText == << "T", "r", "a", "n", "s", "f", "e", "R" >>
TransactionText == << "m", "y", " ", "T", "R", "A", "N", "S", "A", "C", "T", "I", "O", "N", "s" >>
\* what the user may type into the chat field
Texts == { BlankText, BalanceText, TransferText, TransactionText }

\* what the user may type into the auth forms
Phones == { "9876543210" }
Otps == { "123456" }
Pins == { "1234" }
Names == { "Asha" }

\* the nullable user: <<>> is null, <<u>> is the object u
Null == <<>>
UserIds == { 1, 2 }
UserName(id) == IF id = 1 THEN "Asha" ELSE "Ravi"
UserPhone(id) == IF id = 1 THEN "9876543210" ELSE "9123456780"
UserBalance(id) == IF id = 1 THEN 5000 ELSE 1200
\* the user objects a register or login response may carry
Users == { [id |-> i, name |-> UserName(i), phone |-> UserPhone(i), balance |-> UserBalance(i)] :
             i \in UserIds }

\* the transaction lists the backend may return for a user (most recent first)
Txn(uid, n) == [id |-> 10 * uid + n, type |-> "transfer_out", amount |-> 100 * n]
TxnLists(uid) == { << Txn(uid, 1) >> }

\* the bodies a chat response may carry
ChatResponses == { [response |-> << "Your balance is 5000" >>, user_balance |-> 5000],
                   [response |-> << "Transfer done" >>, user_balance |-> 4000] }

\* Date.now() at page load (values that fit TLC's 32-bit integers)
LaunchTimes == { 1700000000 }

(* ---------------------------- text functions --------------------------- *)

UpperCase == << "A","B","C","D","E","F","G","H","I","J","K","L","M",
                "N","O","P","Q","R","S","T","U","V","W","X","Y","Z" >>
LowerCase == << "a","b","c","d","e","f","g","h","i","j","k","l","m",
                "n","o","p","q","r","s","t","u","v","w","x","y","z" >>

\* String.prototype.toLowerCase, one character
LowerChar(c) ==
  IF \E i \in 1..26 : UpperCase[i] = c
  THEN LowerCase[CHOOSE i \in 1..26 : UpperCase[i] = c]
  ELSE c

\* String.prototype.toLowerCase
toLowerCase(s) == [i \in 1..Len(s) |-> LowerChar(s[i])]

IsSpace(c) == c \in { " ", "\t", "\n" }

\* as trim, returning the string as it is
trim_Nothing(s) == s

\* String.prototype.trim
RECURSIVE TrimLeft(_)
TrimLeft(s) == IF s # <<>> /\ IsSpace(Head(s)) THEN TrimLeft(Tail(s)) ELSE s
RECURSIVE TrimRight(_)
TrimRight(s) ==
  IF s # <<>> /\ IsSpace(s[Len(s)]) THEN TrimRight(SubSeq(s, 1, Len(s) - 1)) ELSE s
\* String.prototype.trim
trim(s) == TrimRight(TrimLeft(s))

\* String.prototype.includes
includes(s, sub) ==
  \E i \in 0..(Len(s) - Len(sub)) : SubSeq(s, i + 1, i + Len(sub)) = sub

TransactionWord == << "t","r","a","n","s","a","c","t","i","o","n" >>
TransferWord == << "t","r","a","n","s","f","e","r" >>

\* as NeedsRefresh, without the calls of toLowerCase
NeedsRefresh_CaseSensitive(text) ==
  \/ includes(text, TransactionWord)
  \/ includes(text, TransferWord)

\* the condition of line 181
NeedsRefresh(text) ==
  \/ includes(toLowerCase(text), TransactionWord)
  \/ includes(toLowerCase(text), TransferWord)

FallbackText == << "Sorry, I encountered an error. Please try again." >>

(* ------------------------------- state --------------------------------- *)

VARIABLES
  stage,         \* useState('auth')
  phone, otp, pin, name,
  user,          \* useState(null)
  isListening,
  recognition,   \* the recognizer of recognitionRef: idle, active, or ending after stop() or an error
  transcript,
  messages,      \* sequence of [role, content]
  inputMessage,
  balance,
  transactions,
  sessionId,
  inflight,      \* bag of requests awaiting their response
  synth,         \* utterances queued or playing in window.speechSynthesis
  msgStale,      \* history: msgStale[i] iff messages[i] answers a request sent before a logout
  last           \* history: the handler that ran last, and the response it applied

vars == << stage, phone, otp, pin, name, user, isListening, recognition, transcript, messages,
           inputMessage, balance, transactions, sessionId, inflight, synth,
           msgStale, last >>

Stages == { "auth", "verify-otp", "register", "login", "dashboard" }


(* ------------------------------ requests ------------------------------- *)

\* An axios call awaiting its response, with the values its closure captured.
Request(kind, ph, o, p, n, msg, uid, sid, lim) ==
  [kind |-> kind, phone |-> ph, otp |-> o, pin |-> p, name |-> n, message |-> msg,
   user_id |-> uid, session_id |-> sid, limit |-> lim, stale |-> FALSE]

SendOtpRequest == Request("send-otp", phone, "", "", "", <<>>, 0, <<>>, 0)
VerifyOtpRequest == Request("verify-otp", phone, otp, "", "", <<>>, 0, <<>>, 0)
RegisterRequest == Request("register", phone, "", pin, name, <<>>, 0, <<>>, 0)
LoginRequest == Request("login", phone, "", pin, "", <<>>, 0, <<>>, 0)
TransactionsRequest(userId) == Request("transactions", "", "", "", "", <<>>, userId, <<>>, 5)
ChatRequest == Request("chat", "", "", "", "", inputMessage, user[1].id, sessionId, 0)

Pending(kind) == { r \in BagToSet(inflight) : r.kind = kind }
Issue(bag, r) == bag (+) SetToBag({r})
Settle(bag, r) == bag (-) SetToBag({r})
Room == BagCardinality(inflight) < MaxInFlight

RECURSIVE CountIn(_, _)
CountIn(S, bag) ==
  IF S = {} THEN 0
  ELSE LET r == CHOOSE x \in S : TRUE IN CopiesIn(r, bag) + CountIn(S \ {r}, bag)

\* history: the chat requests in flight at a logout belong to the session that ended
Outdated(r) == IF r.kind = "chat" THEN [r EXCEPT !.stale = TRUE] ELSE r
MarkStale(bag) ==
  LET S == BagToSet(bag)
      T == { Outdated(r) : r \in S }
  IN [t \in T |-> CountIn({ r \in S : Outdated(r) = t }, bag)]

(* ------------------------------ history -------------------------------- *)

NoResponse == [user |-> Null, response |-> <<>>, user_balance |-> 0, transactions |-> <<>>]
NoEvent == [resultIndex |-> 0, results |-> <<>>]
Ran(op) == [op |-> op, resp |-> NoResponse, event |-> NoEvent]
Applied(op, r, resp) == [op |-> op, resp |-> resp, event |-> NoEvent]
Heard(op, event) == [op |-> op, resp |-> NoResponse, event |-> event]

(* -------------------------------- Init --------------------------------- *)

Init ==
  /\ stage = "auth"
  /\ phone = "" /\ otp = "" /\ pin = "" /\ name = ""
  /\ user = Null
  /\ isListening = FALSE
  /\ recognition = "idle"
  /\ transcript = <<>>
  /\ messages = <<>>
  /\ inputMessage = <<>>
  /\ balance = 0
  /\ transactions = <<>>
  /\ sessionId \in { << "session_", t >> : t \in LaunchTimes }
  /\ inflight = EmptyBag
  /\ synth = <<>>
  /\ msgStale = <<>>
  /\ last = Ran("load")

(* --------------------------- speech output ----------------------------- *)

Utterance(text) == [text |-> text, lang |-> "en-IN", rate |-> 1]

\* as cancel, leaving the queue as it is
cancel_Nothing(queue) == queue

\* SpeechSynthesis.cancel: removes every utterance, the playing one included
cancel(queue) == <<>>

\* speak, lines 68-76: cancel, then enqueue the new utterance
speak(queue, text) == Append(cancel(queue), Utterance(text))

RegisterWelcome == << "Welcome to VoiceBank AI. Your account has been created successfully." >>
LoginWelcome(u) ==
  << "Welcome back ", u.name, ". Your current balance is ", u.balance, " rupees." >>

\* the speech engine finishes the utterance it is playing
UtteranceEnd ==
  /\ synth # <<>>
  /\ synth' = Tail(synth)
  /\ last' = Ran("utteranceEnd")
  /\ UNCHANGED << stage, phone, otp, pin, name, user, isListening, recognition, transcript, messages,
                  inputMessage, balance, transactions, sessionId, inflight, msgStale >>

(* ---------------------------- speech input ----------------------------- *)

\* a segment of event.results: results[i].isFinal and results[i][0].transcript
Final(text) == [isFinal |-> TRUE, transcript |-> text]
Interim(text) == [isFinal |-> FALSE, transcript |-> text]
ResultEvent(index, results) == [resultIndex |-> index, results |-> results]

\* the result events the recognizer may deliver
ResultEvents ==
  { ResultEvent(0, << Interim(BalanceText) >>),
    ResultEvent(0, << Final(<< "H" >>), Final(<< "i" >>) >>),
    ResultEvent(0, << Interim(TransferText), Final(BalanceText) >>),
    ResultEvent(1, << Final(BalanceText), Final(TransferText) >>),
    ResultEvent(1, << Final(TransferText), Interim(BalanceText) >>),
    ResultEvent(0, << Final(BlankText) >>) }

\* as Collect, taking the interim segments too
RECURSIVE Collect_WithInterim(_, _, _)
Collect_WithInterim(results, i, finalTranscript) ==
  IF i < Len(results)
  THEN Collect_WithInterim(results, i + 1, finalTranscript \o results[i + 1].transcript)
  ELSE finalTranscript

\* the loop of lines 40-44, from index i (counted from 0)
RECURSIVE Collect(_, _, _)
Collect(results, i, finalTranscript) ==
  IF i < Len(results)
  THEN Collect(results, i + 1,
               IF results[i + 1].isFinal
               THEN finalTranscript \o results[i + 1].transcript
               ELSE finalTranscript)
  ELSE finalTranscript

\* recognition.onresult, lines 38-49
onresult(event) ==
  /\ recognition \in { "active", "ending" }
  /\ LET finalTranscript == Collect(event.results, event.resultIndex, <<>>)
     IN IF finalTranscript # <<>>
        THEN transcript' = finalTranscript /\ inputMessage' = finalTranscript
        ELSE UNCHANGED << transcript, inputMessage >>
  /\ last' = Heard("onresult", event)
  /\ UNCHANGED << stage, phone, otp, pin, name, user, isListening, recognition, messages,
                  balance, transactions, sessionId, inflight, synth, msgStale >>

\* recognition.onerror, lines 51-54; the recognizer then ends
onerror ==
  /\ recognition \in { "active", "ending" }
  /\ isListening' = FALSE
  /\ recognition' = "ending"
  /\ last' = Ran("onerror")
  /\ UNCHANGED << stage, phone, otp, pin, name, user, transcript, messages, inputMessage,
                  balance, transactions, sessionId, inflight, synth, msgStale >>

\* recognition.onend, lines 56-58
onend ==
  /\ recognition \in { "active", "ending" }
  /\ isListening' = FALSE
  /\ recognition' = "idle"
  /\ last' = Ran("onend")
  /\ UNCHANGED << stage, phone, otp, pin, name, user, transcript, messages, inputMessage,
                  balance, transactions, sessionId, inflight, synth, msgStale >>

\* the microphone button of the dashboard, lines 78-86.  stop() lets the
\* recognizer end; start() on a recognizer that has not ended yet throws
\* InvalidStateError, and line 84 is not reached.
toggleListening ==
  /\ stage = "dashboard"
  /\ IF isListening
     THEN /\ recognition' = IF recognition = "active" THEN "ending" ELSE recognition
          /\ isListening' = FALSE
          /\ last' = Ran("toggleListening:stop")
     ELSE IF recognition = "idle"
          THEN /\ recognition' = "active"
               /\ isListening' = TRUE
               /\ last' = Ran("toggleListening:start")
          ELSE /\ UNCHANGED << recognition, isListening >>
               /\ last' = Ran("toggleListening:threw")
  /\ UNCHANGED << stage, phone, otp, pin, name, user, transcript, messages, inputMessage,
                  balance, transactions, sessionId, inflight, synth, msgStale >>

(* ---------------------------- form inputs ------------------------------ *)

SetPhone(v) ==
  /\ stage = "auth" /\ v # phone
  /\ phone' = v
  /\ last' = Ran("setPhone")
  /\ UNCHANGED << stage, otp, pin, name, user, isListening, recognition, transcript, messages,
                  inputMessage, balance, transactions, sessionId, inflight, synth, msgStale >>

SetOtp(v) ==
  /\ stage = "verify-otp" /\ v # otp
  /\ otp' = v
  /\ last' = Ran("setOtp")
  /\ UNCHANGED << stage, phone, pin, name, user, isListening, recognition, transcript, messages,
                  inputMessage, balance, transactions, sessionId, inflight, synth, msgStale >>

SetName(v) ==
  /\ stage = "register" /\ v # name
  /\ name' = v
  /\ last' = Ran("setName")
  /\ UNCHANGED << stage, phone, otp, pin, user, isListening, recognition, transcript, messages,
                  inputMessage, balance, transactions, sessionId, inflight, synth, msgStale >>

SetPin(v) ==
  /\ stage \in { "register", "login" } /\ v # pin
  /\ pin' = v
  /\ last' = Ran("setPin")
  /\ UNCHANGED << stage, phone, otp, name, user, isListening, recognition, transcript, messages,
                  inputMessage, balance, transactions, sessionId, inflight, synth, msgStale >>

SetInputMessage(v) ==
  /\ stage = "dashboard" /\ v # inputMessage
  /\ inputMessage' = v
  /\ last' = Ran("setInputMessage")
  /\ UNCHANGED << stage, phone, otp, pin, name, user, isListening, recognition, transcript, messages,
                  balance, transactions, sessionId, inflight, synth, msgStale >>

(* ------------------------------ sendOTP -------------------------------- *)

\* the Send OTP button, shown at stage auth: the call up to its await
sendOTP ==
  /\ stage = "auth"
  /\ Room
  /\ inflight' = Issue(inflight, SendOtpRequest)
  /\ last' = Applied("sendOTP", SendOtpRequest, NoResponse)
  /\ UNCHANGED << stage, phone, otp, pin, name, user, isListening, recognition, transcript, messages,
                  inputMessage, balance, transactions, sessionId, synth, msgStale >>

\* as sendOTP_then, with a response that arrives at another stage discarded
sendOTP_then_DropsStale(r) ==
  /\ r \in Pending("send-otp")
  /\ inflight' = Settle(inflight, r)
  /\ stage' = IF stage = "auth" THEN "verify-otp" ELSE stage
  /\ last' = Applied("sendOTP:ok", r, NoResponse)
  /\ UNCHANGED << phone, otp, pin, name, user, isListening, recognition, transcript, messages,
                  inputMessage, balance, transactions, sessionId, synth, msgStale >>

\* the response arrived: lines 91-92
sendOTP_then(r) ==
  /\ r \in Pending("send-otp")
  /\ inflight' = Settle(inflight, r)
  /\ stage' = "verify-otp"
  /\ last' = Applied("sendOTP:ok", r, NoResponse)
  /\ UNCHANGED << phone, otp, pin, name, user, isListening, recognition, transcript, messages,
                  inputMessage, balance, transactions, sessionId, synth, msgStale >>

\* the call failed: line 94
sendOTP_catch(r) ==
  /\ r \in Pending("send-otp")
  /\ inflight' = Settle(inflight, r)
  /\ last' = Applied("sendOTP:failed", r, NoResponse)
  /\ UNCHANGED << stage, phone, otp, pin, name, user, isListening, recognition, transcript, messages,
                  inputMessage, balance, transactions, sessionId, synth, msgStale >>

(* ----------------------------- verifyOTP ------------------------------- *)

verifyOTP ==
  /\ stage = "verify-otp"
  /\ Room
  /\ inflight' = Issue(inflight, VerifyOtpRequest)
  /\ last' = Applied("verifyOTP", VerifyOtpRequest, NoResponse)
  /\ UNCHANGED << stage, phone, otp, pin, name, user, isListening, recognition, transcript, messages,
                  inputMessage, balance, transactions, sessionId, synth, msgStale >>

\* as StageAfterVerify, with the two branches of line 105 exchanged
StageAfterVerify_Swapped(success, user_exists, current) ==
  IF success THEN (IF user_exists THEN "register" ELSE "login") ELSE current

\* as StageAfterVerify, with a rejected code sending the user back to the phone form
StageAfterVerify_Restart(success, user_exists, current) ==
  IF success THEN (IF user_exists THEN "login" ELSE "register") ELSE "auth"

\* lines 103-112: the stage the response selects
StageAfterVerify(success, user_exists, current) ==
  IF success THEN (IF user_exists THEN "login" ELSE "register") ELSE current

VerifyOp(success, user_exists) ==
  IF success THEN (IF user_exists THEN "verifyOTP:ok:exists" ELSE "verifyOTP:ok:new")
  ELSE "verifyOTP:invalid"

verifyOTP_then(r, success, user_exists) ==
  /\ r \in Pending("verify-otp")
  /\ inflight' = Settle(inflight, r)
  /\ stage' = StageAfterVerify(success, user_exists, stage)
  /\ last' = Applied(VerifyOp(success, user_exists), r, NoResponse)
  /\ UNCHANGED << phone, otp, pin, name, user, isListening, recognition, transcript, messages,
                  inputMessage, balance, transactions, sessionId, synth, msgStale >>

verifyOTP_catch(r) ==
  /\ r \in Pending("verify-otp")
  /\ inflight' = Settle(inflight, r)
  /\ last' = Applied("verifyOTP:failed", r, NoResponse)
  /\ UNCHANGED << stage, phone, otp, pin, name, user, isListening, recognition, transcript, messages,
                  inputMessage, balance, transactions, sessionId, synth, msgStale >>


(* ------------------------- register and login -------------------------- *)

register ==
  /\ stage = "register"
  /\ Room
  /\ inflight' = Issue(inflight, RegisterRequest)
  /\ last' = Applied("register", RegisterRequest, NoResponse)
  /\ UNCHANGED << stage, phone, otp, pin, name, user, isListening, recognition, transcript, messages,
                  inputMessage, balance, transactions, sessionId, synth, msgStale >>

\* lines 126-131; loadDashboard runs up to its await inside the same continuation
register_then(r, u) ==
  /\ r \in Pending("register")
  /\ user' = << u >>
  /\ balance' = u.balance
  /\ stage' = "dashboard"
  /\ synth' = speak(synth, RegisterWelcome)
  /\ inflight' = Issue(Settle(inflight, r), TransactionsRequest(u.id))
  /\ last' = Applied("register:ok", r, [NoResponse EXCEPT !.user = << u >>])
  /\ UNCHANGED << phone, otp, pin, name, isListening, recognition, transcript, messages,
                  inputMessage, transactions, sessionId, msgStale >>

register_catch(r) ==
  /\ r \in Pending("register")
  /\ inflight' = Settle(inflight, r)
  /\ last' = Applied("register:failed", r, NoResponse)
  /\ UNCHANGED << stage, phone, otp, pin, name, user, isListening, recognition, transcript, messages,
                  inputMessage, balance, transactions, sessionId, synth, msgStale >>

login ==
  /\ stage = "login"
  /\ Room
  /\ inflight' = Issue(inflight, LoginRequest)
  /\ last' = Applied("login", LoginRequest, NoResponse)
  /\ UNCHANGED << stage, phone, otp, pin, name, user, isListening, recognition, transcript, messages,
                  inputMessage, balance, transactions, sessionId, synth, msgStale >>

\* as login_then, without the call of loadDashboard
login_then_NoRefresh(r, u) ==
  /\ r \in Pending("login")
  /\ user' = << u >>
  /\ balance' = u.balance
  /\ stage' = "dashboard"
  /\ synth' = speak(synth, LoginWelcome(u))
  /\ inflight' = Settle(inflight, r)
  /\ last' = Applied("login:ok", r, [NoResponse EXCEPT !.user = << u >>])
  /\ UNCHANGED << phone, otp, pin, name, isListening, recognition, transcript, messages,
                  inputMessage, transactions, sessionId, msgStale >>

\* lines 140-145
login_then(r, u) ==
  /\ r \in Pending("login")
  /\ user' = << u >>
  /\ balance' = u.balance
  /\ stage' = "dashboard"
  /\ synth' = speak(synth, LoginWelcome(u))
  /\ inflight' = Issue(Settle(inflight, r), TransactionsRequest(u.id))
  /\ last' = Applied("login:ok", r, [NoResponse EXCEPT !.user = << u >>])
  /\ UNCHANGED << phone, otp, pin, name, isListening, recognition, transcript, messages,
                  inputMessage, transactions, sessionId, msgStale >>

\* as login_catch, with the failure also returning to the phone form
login_catch_Restart(r) ==
  /\ r \in Pending("login")
  /\ inflight' = Settle(inflight, r)
  /\ stage' = "auth"
  /\ last' = Applied("login:failed", r, NoResponse)
  /\ UNCHANGED << phone, otp, pin, name, user, isListening, recognition, transcript, messages,
                  inputMessage, balance, transactions, sessionId, synth, msgStale >>

login_catch(r) ==
  /\ r \in Pending("login")
  /\ inflight' = Settle(inflight, r)
  /\ last' = Applied("login:failed", r, NoResponse)
  /\ UNCHANGED << stage, phone, otp, pin, name, user, isListening, recognition, transcript, messages,
                  inputMessage, balance, transactions, sessionId, synth, msgStale >>

(* ---------------------------- loadDashboard ---------------------------- *)

\* line 154
loadDashboard_then(r, txns) ==
  /\ r \in Pending("transactions")
  /\ txns \in TxnLists(r.user_id)
  /\ inflight' = Settle(inflight, r)
  /\ transactions' = txns
  /\ last' = Applied("loadDashboard:ok", r, [NoResponse EXCEPT !.transactions = txns])
  /\ UNCHANGED << stage, phone, otp, pin, name, user, isListening, recognition, transcript, messages,
                  inputMessage, balance, sessionId, synth, msgStale >>

\* line 156
loadDashboard_catch(r) ==
  /\ r \in Pending("transactions")
  /\ inflight' = Settle(inflight, r)
  /\ last' = Applied("loadDashboard:failed", r, NoResponse)
  /\ UNCHANGED << stage, phone, otp, pin, name, user, isListening, recognition, transcript, messages,
                  inputMessage, balance, transactions, sessionId, synth, msgStale >>

(* ----------------------------- sendMessage ----------------------------- *)

Message(role, content) == [role |-> role, content |-> content]

ChatsInFlight == CountIn(Pending("chat"), inflight)

\* the log has room for this message and for the answer to every request in flight
LogRoom == Len(messages) + ChatsInFlight + 2 <= MaxMessages

\* line 161: the early return
sendMessage_skip ==
  /\ stage = "dashboard"
  /\ trim(inputMessage) = <<>>
  /\ last' = Ran("sendMessage:skip")
  /\ UNCHANGED << stage, phone, otp, pin, name, user, isListening, recognition, transcript, messages,
                  inputMessage, balance, transactions, sessionId, inflight, synth, msgStale >>

\* as sendMessage, with the log rebuilt from the new message alone
sendMessage_ReplacesLog ==
  /\ stage = "dashboard"
  /\ trim(inputMessage) # <<>>
  /\ Room /\ LogRoom
  /\ user # Null
  /\ inputMessage' = <<>>
  /\ transcript' = <<>>
  /\ messages' = << Message("user", inputMessage) >>
  /\ msgStale' = << FALSE >>
  /\ inflight' = Issue(inflight, ChatRequest)
  /\ last' = Applied("sendMessage", ChatRequest, NoResponse)
  /\ UNCHANGED << stage, phone, otp, pin, name, user, isListening, recognition,
                  balance, transactions, sessionId, synth >>

\* lines 163-173: up to the await.  Reading user.id of a null user throws inside
\* the try, and the catch of line 184 then runs in the same turn.
sendMessage ==
  /\ stage = "dashboard"
  /\ trim(inputMessage) # <<>>
  /\ Room /\ LogRoom
  /\ inputMessage' = <<>>
  /\ transcript' = <<>>
  /\ IF user = Null
     THEN /\ messages' = messages \o << Message("user", inputMessage),
                                        Message("assistant", FallbackText) >>
          /\ msgStale' = msgStale \o << FALSE, FALSE >>
          /\ inflight' = inflight
          /\ last' = Ran("sendMessage:threw")
     ELSE /\ messages' = Append(messages, Message("user", inputMessage))
          /\ msgStale' = Append(msgStale, FALSE)
          /\ inflight' = Issue(inflight, ChatRequest)
          /\ last' = Applied("sendMessage", ChatRequest, NoResponse)
  /\ UNCHANGED << stage, phone, otp, pin, name, user, isListening, recognition,
                  balance, transactions, sessionId, synth >>

\* as sendMessage_then, with the balance kept when the response reports a larger one
sendMessage_then_KeepsLower(r, reply, user_balance) ==
  /\ r \in Pending("chat")
  /\ messages' = Append(messages, Message("assistant", reply))
  /\ msgStale' = Append(msgStale, r.stale)
  /\ balance' = IF user_balance < balance THEN user_balance ELSE balance
  /\ synth' = speak(synth, reply)
  /\ inflight' = IF NeedsRefresh(r.message)
                 THEN Issue(Settle(inflight, r), TransactionsRequest(r.user_id))
                 ELSE Settle(inflight, r)
  /\ last' = Applied("sendMessage:ok", r,
                     [NoResponse EXCEPT !.response = reply, !.user_balance = user_balance])
  /\ UNCHANGED << stage, phone, otp, pin, name, user, isListening, recognition, transcript,
                  inputMessage, transactions, sessionId >>

\* lines 175-183
sendMessage_then(r, reply, user_balance) ==
  /\ r \in Pending("chat")
  /\ messages' = Append(messages, Message("assistant", reply))
  /\ msgStale' = Append(msgStale, r.stale)
  /\ balance' = user_balance
  /\ synth' = speak(synth, reply)
  /\ inflight' = IF NeedsRefresh(r.message)
                 THEN Issue(Settle(inflight, r), TransactionsRequest(r.user_id))
                 ELSE Settle(inflight, r)
  /\ last' = Applied("sendMessage:ok", r,
                     [NoResponse EXCEPT !.response = reply, !.user_balance = user_balance])
  /\ UNCHANGED << stage, phone, otp, pin, name, user, isListening, recognition, transcript,
                  inputMessage, transactions, sessionId >>

\* as sendMessage_catch, with the unanswered user message rolled back
sendMessage_catch_RollsBack(r) ==
  /\ r \in Pending("chat")
  /\ messages' = IF messages = <<>> THEN <<>> ELSE SubSeq(messages, 1, Len(messages) - 1)
  /\ msgStale' = IF msgStale = <<>> THEN <<>> ELSE SubSeq(msgStale, 1, Len(msgStale) - 1)
  /\ inflight' = Settle(inflight, r)
  /\ last' = Applied("sendMessage:failed", r, NoResponse)
  /\ UNCHANGED << stage, phone, otp, pin, name, user, isListening, recognition, transcript,
                  inputMessage, balance, transactions, sessionId, synth >>

\* lines 185-187
sendMessage_catch(r) ==
  /\ r \in Pending("chat")
  /\ messages' = Append(messages, Message("assistant", FallbackText))
  /\ msgStale' = Append(msgStale, r.stale)
  /\ inflight' = Settle(inflight, r)
  /\ last' = Applied("sendMessage:failed", r, NoResponse)
  /\ UNCHANGED << stage, phone, otp, pin, name, user, isListening, recognition, transcript,
                  inputMessage, balance, transactions, sessionId, synth >>

(* -------------------------------- logout ------------------------------- *)

\* as logout, without setMessages([])
logout_KeepsLog ==
  /\ stage = "dashboard"
  /\ stage' = "auth"
  /\ user' = Null
  /\ inflight' = MarkStale(inflight)
  /\ last' = Ran("logout")
  /\ UNCHANGED << phone, otp, pin, name, isListening, recognition, transcript, messages, msgStale,
                  inputMessage, balance, transactions, sessionId, synth >>

\* as logout, with the balance and the transaction list reset too
logout_ResetsDashboard ==
  /\ stage = "dashboard"
  /\ stage' = "auth"
  /\ user' = Null
  /\ messages' = <<>>
  /\ msgStale' = <<>>
  /\ balance' = 0
  /\ transactions' = <<>>
  /\ inflight' = MarkStale(inflight)
  /\ last' = Ran("logout")
  /\ UNCHANGED << phone, otp, pin, name, isListening, recognition, transcript,
                  inputMessage, sessionId, synth >>

\* the Logout button, shown at stage dashboard: lines 306-310
logout ==
  /\ stage = "dashboard"
  /\ stage' = "auth"
  /\ user' = Null
  /\ messages' = <<>>
  /\ msgStale' = <<>>
  /\ inflight' = MarkStale(inflight)
  /\ last' = Ran("logout")
  /\ UNCHANGED << phone, otp, pin, name, isListening, recognition, transcript,
                  inputMessage, balance, transactions, sessionId, synth >>

(* ------------------------------- behaviour ----------------------------- *)

\* typing into the forms of the sign-in stages
FormInput ==
  \/ \E v \in Phones : SetPhone(v)
  \/ \E v \in Otps : SetOtp(v)
  \/ \E v \in Names : SetName(v)
  \/ \E v \in Pins : SetPin(v)

\* the sign-in buttons and the continuations of their calls
SignIn ==
  \/ sendOTP
  \/ \E r \in Pending("send-otp") : sendOTP_then(r)
  \/ \E r \in Pending("send-otp") : sendOTP_catch(r)
  \/ verifyOTP
  \/ \E r \in Pending("verify-otp"), success, user_exists \in BOOLEAN :
       verifyOTP_then(r, success, user_exists)
  \/ \E r \in Pending("verify-otp") : verifyOTP_catch(r)
  \/ register
  \/ \E r \in Pending("register"), u \in Users : register_then(r, u)
  \/ \E r \in Pending("register") : register_catch(r)
  \/ login
  \/ \E r \in Pending("login"), u \in Users : login_then(r, u)
  \/ \E r \in Pending("login") : login_catch(r)

\* the transaction list arrives, or its call fails
Refresh ==
  \/ \E r \in Pending("transactions") : \E txns \in TxnLists(r.user_id) :
       loadDashboard_then(r, txns)
  \/ \E r \in Pending("transactions") : loadDashboard_catch(r)

\* the chat box of the dashboard
Chat ==
  \/ \E v \in Texts : SetInputMessage(v)
  \/ sendMessage_skip
  \/ sendMessage
  \/ \E r \in Pending("chat"), d \in ChatResponses :
       sendMessage_then(r, d.response, d.user_balance)
  \/ \E r \in Pending("chat") : sendMessage_catch(r)

\* the microphone and the events of the recognizer
Voice ==
  \/ toggleListening
  \/ \E event \in ResultEvents : onresult(event)
  \/ onerror
  \/ onend

\* every event the component reacts to
Next == FormInput \/ SignIn \/ Refresh \/ Chat \/ logout \/ UtteranceEnd \/ Voice

Spec == Init /\ [][Next]_vars

\* Spec is the whole component.  Its state space is the product of the sign-in
\* forms and the dashboard, so the properties are verified under two restrictions
\* of the user's behaviour; every continuation of every call stays in both.

\* signing in and out: the user fills and submits the forms, and never chats
SignInNext == FormInput \/ SignIn \/ Refresh \/ logout

SignInSpec == Init /\ [][SignInNext]_vars

\* a sign-in in which each form is submitted once no call is awaiting its response
Quiet == inflight = EmptyBag
PatientSignIn ==
  \/ Quiet /\ sendOTP
  \/ \E r \in Pending("send-otp") : sendOTP_then(r)
  \/ \E r \in Pending("send-otp") : sendOTP_catch(r)
  \/ Quiet /\ verifyOTP
  \/ \E r \in Pending("verify-otp"), success, user_exists \in BOOLEAN :
       verifyOTP_then(r, success, user_exists)
  \/ \E r \in Pending("verify-otp") : verifyOTP_catch(r)
  \/ Quiet /\ register
  \/ \E r \in Pending("register"), u \in Users : register_then(r, u)
  \/ \E r \in Pending("register") : register_catch(r)
  \/ Quiet /\ login
  \/ \E r \in Pending("login"), u \in Users : login_then(r, u)
  \/ \E r \in Pending("login") : login_catch(r)

\* a session: the forms are submitted as they are, and the dashboard is used
SessionNext == PatientSignIn \/ Refresh \/ Chat \/ logout \/ UtteranceEnd

SessionSpec == Init /\ [][SessionNext]_vars


\* the chat box used by voice: the text comes from the recognizer, none is typed
VoiceChat ==
  \/ sendMessage_skip
  \/ sendMessage
  \/ \E r \in Pending("chat"), d \in ChatResponses :
       sendMessage_then(r, d.response, d.user_balance)
  \/ \E r \in Pending("chat") : sendMessage_catch(r)

\* a session by voice; what the synthesizer plays is left playing
VoiceNext == PatientSignIn \/ Refresh \/ VoiceChat \/ logout \/ Voice

VoiceSpec == Init /\ [][VoiceNext]_vars

(* =============================== claims ================================ *)

(* C1: in every reachable state, user is non-null if and only if           *)
(* stage = dashboard.                                                      *)
C1_UserIffDashboard == (user # Null) <=> (stage = "dashboard")

\* the half of C1 that the code keeps: the dashboard always has a user
C1_DashboardHasUser == stage = "dashboard" => user # Null

(* C2: every change of stage follows one of the edges auth -> verify-otp,  *)
(* verify-otp -> register, verify-otp -> login, register -> dashboard,     *)
(* login -> dashboard, dashboard -> auth.                                  *)
StageEdges ==
  { << "auth", "verify-otp" >>, << "verify-otp", "register" >>, << "verify-otp", "login" >>,
    << "register", "dashboard" >>, << "login", "dashboard" >>, << "dashboard", "auth" >> }
C2_StageFollowsEdges == [][stage' # stage => << stage, stage' >> \in StageEdges]_vars

(* C3: logout always leaves stage = auth, user = null and messages empty,  *)
(* whatever the state it is invoked in.                                    *)
C3_LogoutResets ==
  last.op = "logout" => stage = "auth" /\ user = Null /\ messages = <<>>

\* a logout of a session whose log was not empty: its chat call is still in flight
C3_Witness == last.op = "logout" /\ \E r \in Pending("chat") : r.stale

(* C4: after a logout the message log never contains an entry produced by  *)
(* a chat request that was sent before that logout.                        *)
C4_NoEntryOfEndedSession == \A i \in 1..Len(msgStale) : ~msgStale[i]

(* C5: each sendMessage call appends exactly one user entry and, when it   *)
(* resolves, exactly one assistant entry; hence once no chat request is in *)
(* flight the log holds one assistant entry per user entry.                *)
Entries(role) == Cardinality({ i \in 1..Len(messages) : messages[i].role = role })
C5_OneAnswerPerMessage == ChatsInFlight = 0 => Entries("assistant") = Entries("user")

\* the per-call half of C5, which the code keeps
C5_OneEntryPerStep ==
  [][/\ last'.op = "sendMessage" =>
          /\ Len(messages') = Len(messages) + 1
          /\ SubSeq(messages', 1, Len(messages)) = messages
          /\ messages'[Len(messages')].role = "user"
     /\ last'.op \in { "sendMessage:ok", "sendMessage:failed" } =>
          /\ Len(messages') = Len(messages) + 1
          /\ SubSeq(messages', 1, Len(messages)) = messages
          /\ messages'[Len(messages')].role = "assistant"]_vars

(* C6: when a send-otp, verify-otp, register or login call fails, stage    *)
(* stays at the stage the action was submitted from, and user, balance,    *)
(* messages and transactions are unchanged.                                *)
FailedOps ==
  { "sendOTP:failed", "verifyOTP:invalid", "verifyOTP:failed", "register:failed", "login:failed" }

\* the stage whose form issues the call
SubmitStage(op) ==
  CASE op = "sendOTP:failed" -> "auth"
    [] op \in { "verifyOTP:invalid", "verifyOTP:failed" } -> "verify-otp"
    [] op = "register:failed" -> "register"
    [] op = "login:failed" -> "login"

\* C6 as stated: after the failure, stage is the stage of the submitting form
C6_StaysAtSubmitStage == last.op \in FailedOps => stage = SubmitStage(last.op)

\* C6 as amended: the failure changes neither stage nor user, balance, messages,
\* transactions; stage is the submitting stage if it had not moved on before
C6_FailureChangesNothing ==
  [][last'.op \in FailedOps =>
       /\ stage' = stage /\ user' = user /\ balance' = balance
       /\ messages' = messages /\ transactions' = transactions
       /\ (stage = SubmitStage(last'.op) => stage' = SubmitStage(last'.op))]_vars

\* a failure that arrives once a user is signed in
C6_Witness == last.op \in FailedOps /\ user # Null /\ transactions # <<>>

(* C7: after a verify-otp outcome with success=false, or a verify-otp call *)
(* that throws, stage is verify-otp and user is null.                      *)
VerifyRejectedOps == { "verifyOTP:invalid", "verifyOTP:failed" }

\* C7 as stated
C7_RejectedStaysAtVerify ==
  last.op \in VerifyRejectedOps => stage = "verify-otp" /\ user = Null

\* C7 as amended: the outcome leaves stage and user as it found them, so they are
\* verify-otp and null whenever they were when the outcome arrived
C7_RejectedKeepsStageAndUser ==
  [][last'.op \in VerifyRejectedOps => stage' = stage /\ user' = user]_vars

\* a rejected code, at the form it was typed into
C7_Witness == last.op = "verifyOTP:invalid" /\ stage = "verify-otp" /\ otp # ""

(* C8: a verify-otp outcome with success=true sets stage to login when     *)
(* user_exists and to register otherwise, and leaves user, balance and     *)
(* transactions untouched.                                                 *)
C8_VerifiedSelectsStage ==
  [][/\ last'.op = "verifyOTP:ok:exists" => stage' = "login"
     /\ last'.op = "verifyOTP:ok:new" => stage' = "register"
     /\ last'.op \in { "verifyOTP:ok:exists", "verifyOTP:ok:new" } =>
          user' = user /\ balance' = balance /\ transactions' = transactions]_vars

\* a verification of a new phone number, after a session that left a balance behind
C8_Witness == last.op = "verifyOTP:ok:new" /\ stage = "register" /\ balance # 0

(* C9: after a successful login or register response, stage = dashboard,   *)
(* user is the user of the response, balance is that user's balance, a     *)
(* transaction-list request for that user's id with limit 5 is in flight,  *)
(* and the result of such a request replaces transactions when it arrives. *)
C9_SignedInAndRefreshed ==
  /\ last.op \in { "login:ok", "register:ok" } =>
       /\ stage = "dashboard"
       /\ user = last.resp.user /\ user # Null
       /\ balance = user[1].balance
       /\ \E r \in Pending("transactions") : r.user_id = user[1].id /\ r.limit = 5
  /\ last.op = "loadDashboard:ok" => transactions = last.resp.transactions

\* the list of the signed-in user has arrived
C9_Witness ==
  /\ last.op = "loadDashboard:ok" /\ stage = "dashboard"
  /\ transactions = << Txn(user[1].id, 1) >>

(* C10: a phone submission requests an OTP only when the phone field is    *)
(* non-empty; with an empty phone no request is sent.                      *)
C10_NoRequestForEmptyPhone == \A r \in Pending("send-otp") : r.phone # ""


(* C11: each successful chat response overwrites balance with its          *)
(* user_balance and appends its reply at the end of the log, in the order  *)
(* the responses arrive; a failed one leaves balance alone.  So balance is *)
(* the user_balance of the last successful response to arrive.             *)
C11_AppliedInArrivalOrder ==
  [][/\ last'.op = "sendMessage:ok" =>
          /\ balance' = last'.resp.user_balance
          /\ messages' = Append(messages, [role |-> "assistant",
                                           content |-> last'.resp.response])
     /\ last'.op = "sendMessage:failed" => balance' = balance]_vars

\* two requests were in flight and the second one sent was answered first, with a
\* balance that differs from the one shown before
C11_Witness ==
  /\ last.op = "sendMessage:ok" /\ Len(messages) = 3
  /\ messages[1].role = "user" /\ messages[2].role = "user"
  /\ messages[1].content # messages[2].content
  /\ \E r \in Pending("chat") : r.message = messages[1].content
  /\ balance = 4000

(* C13: when a chat call fails, the fixed fallback assistant message is    *)
(* appended after the log as it was (the user's message is not rolled      *)
(* back), and balance, transactions, user and stage are unchanged.         *)
C13_FailureAppendsFallback ==
  [][last'.op = "sendMessage:failed" =>
       /\ messages' = Append(messages,
            [role |-> "assistant",
             content |-> << "Sorry, I encountered an error. Please try again." >>])
       /\ balance' = balance /\ transactions' = transactions
       /\ user' = user /\ stage' = stage]_vars

\* the log shows the user's message followed by the fallback
C13_Witness ==
  /\ last.op = "sendMessage:failed" /\ Len(messages) = 2
  /\ messages[1].role = "user" /\ messages[2].content = FallbackText
  /\ balance # 0 /\ transactions # <<>>

(* C15: every speak call cancels what is queued or playing, so at most one *)
(* utterance is queued or audible, and after a speak call it is the one of *)
(* that call.                                                              *)
SpokenBy(op) ==
  CASE op = "register:ok" -> RegisterWelcome
    [] op = "login:ok" -> LoginWelcome(last.resp.user[1])
    [] op = "sendMessage:ok" -> last.resp.response

C15_OneUtterance ==
  /\ Len(synth) <= 1
  /\ last.op \in { "register:ok", "login:ok", "sendMessage:ok" } =>
       /\ Len(synth) = 1
       /\ synth[1].text = SpokenBy(last.op)

\* a reply is spoken in a session whose welcome and first reply were spoken before
C15_Witness ==
  /\ last.op = "sendMessage:ok" /\ Len(synth) = 1
  /\ Cardinality({ i \in 1..Len(messages) : messages[i].role = "assistant" }) = 2

(* C18: a send-otp or verify-otp response is applied whatever the stage it *)
(* arrives at: a send-otp response sets stage to verify-otp, a successful  *)
(* verification sets it to login or register, also after the stage has     *)
(* moved on.                                                               *)
C18_StaleResponseApplied ==
  /\ last.op = "sendOTP:ok" => stage = "verify-otp"
  /\ last.op = "verifyOTP:ok:exists" => stage = "login"
  /\ last.op = "verifyOTP:ok:new" => stage = "register"

\* user is null at stage auth, where the phone is submitted: a send-otp response
\* applied while a user is signed in arrived after the stage had moved on
C18_Witness == last.op = "sendOTP:ok" /\ user # Null /\ stage = "verify-otp"

\* the same for a verification
C18_WitnessVerify == last.op = "verifyOTP:ok:exists" /\ user # Null /\ stage = "login"

(* C20: whenever stage = dashboard, the balance, the transaction list and  *)
(* the message log shown come from responses to requests made for the      *)
(* signed-in user.                                                         *)
OwnTransactions ==
  \A i \in 1..Len(transactions) : transactions[i] = Txn(user[1].id, 1)

C20_OnlyOwnData ==
  stage = "dashboard" =>
    /\ OwnTransactions
    /\ \A i \in 1..Len(msgStale) : ~msgStale[i]


(* C12: a chat turn issues a transaction-list request if and only if the   *)
(* chat call succeeded and the text sent contains "transaction" or         *)
(* "transfer" in any letter case; the request is in flight once the reply  *)
(* and the balance have been applied; a failed call issues none.           *)
SameLetter(c, d) == c = d \/ \E j \in 1..26 : UpperCase[j] = c /\ LowerCase[j] = d
Mentions(text, word) ==
  \E start \in 1..Len(text) :
    /\ start + Len(word) - 1 <= Len(text)
    /\ \A k \in 1..Len(word) : SameLetter(text[start + k - 1], word[k])
AsksForTransactions(text) ==
  \/ Mentions(text, << "t","r","a","n","s","a","c","t","i","o","n" >>)
  \/ Mentions(text, << "t","r","a","n","s","f","e","r" >>)

C12_RefreshIffMentioned ==
  [][/\ last'.op = "sendMessage:ok" =>
          \E r \in Pending("chat") :
             /\ inflight' = IF AsksForTransactions(r.message)
                            THEN Settle(inflight, r) (+) SetToBag({TransactionsRequest(r.user_id)})
                            ELSE Settle(inflight, r)
             /\ messages'[Len(messages')].content = last'.resp.response
             /\ balance' = last'.resp.user_balance
     /\ last'.op = "sendMessage:failed" =>
          \E r \in Pending("chat") : inflight' = Settle(inflight, r)]_vars

\* the reply to a message that says TRANSACTION in capitals has been applied and
\* the list of the signed-in user has been requested
C12_Witness ==
  /\ last.op = "sendMessage:ok" /\ Len(messages) = 2
  /\ messages[1].content = TransactionText
  /\ Pending("transactions") # {}

\* the reply to "Hi" has been applied and nothing is in flight
C12_WitnessNoRefresh ==
  /\ last.op = "sendMessage:ok" /\ Len(messages) = 2
  /\ messages[1].content = BalanceText
  /\ inflight = EmptyBag


(* C14: the message log is append-only: every action other than logout     *)
(* leaves the previous log as a prefix of the new log.                     *)
C14_LogAppendOnly ==
  [][last'.op # "logout" =>
       /\ Len(messages') >= Len(messages)
       /\ SubSeq(messages', 1, Len(messages)) = messages]_vars

\* the log has grown over two turns, the second one spoken
C14_Witness ==
  /\ Len(messages) = 4 /\ last.op = "sendMessage:ok"
  /\ messages[3].role = "user" /\ recognition # "idle"

(* C16: on a result event, if the segments from resultIndex on contain     *)
(* finalized text, transcript and the pending input both become the        *)
(* concatenation, in order, of exactly those finalized segments; otherwise *)
(* both are unchanged.  Interim text reaches neither field.                *)
IsFinalSegment(segment) == segment.isFinal
RECURSIVE Joined(_)
Joined(segments) ==
  IF segments = <<>> THEN <<>> ELSE Head(segments).transcript \o Joined(Tail(segments))
FinalizedText(event) ==
  Joined(SelectSeq(SubSeq(event.results, event.resultIndex + 1, Len(event.results)),
                   IsFinalSegment))

C16_OnlyFinalizedText ==
  [][last'.op = "onresult" =>
       IF FinalizedText(last'.event) # <<>>
       THEN /\ transcript' = FinalizedText(last'.event)
            /\ inputMessage' = FinalizedText(last'.event)
       ELSE transcript' = transcript /\ inputMessage' = inputMessage]_vars

\* two finalized segments, "H" and "i", have been joined in order
C16_Witness ==
  /\ last.op = "onresult" /\ Len(last.event.results) = 2
  /\ last.event.results[1].transcript = << "H" >>
  /\ transcript = << "H", "i" >> /\ inputMessage = << "H", "i" >>

\* an event with interim text only has left a transcript in place
C16_WitnessInterim ==
  /\ last.op = "onresult" /\ last.event = ResultEvent(0, << Interim(BalanceText) >>)
  /\ transcript = TransferText

(* C17: sendMessage with an empty or whitespace-only pending input changes *)
(* nothing; with any other input it appends the user message, clears the   *)
(* input field and the transcript, and sends the text as it was.           *)
AllBlank(text) == \A i \in 1..Len(text) : text[i] \in { " ", "\t", "\n" }

C17_BlankInputIgnored ==
  [][/\ last'.op = "sendMessage:skip" =>
          /\ AllBlank(inputMessage)
          /\ UNCHANGED << messages, inflight, inputMessage, transcript, balance, transactions >>
     /\ last'.op \in { "sendMessage", "sendMessage:threw" } =>
          /\ ~AllBlank(inputMessage)
          /\ inputMessage' = <<>> /\ transcript' = <<>>
          /\ Len(messages') > Len(messages)
          /\ messages'[Len(messages) + 1] = [role |-> "user", content |-> inputMessage]
     /\ last'.op = "sendMessage" =>
          \E r \in BagToSet(inflight') :
             /\ r.kind = "chat" /\ r.message = inputMessage
             /\ inflight' = inflight (+) SetToBag({r})]_vars

\* a whitespace-only result was heard and the send button pressed: nothing moved
C17_Witness ==
  /\ last.op = "sendMessage:skip"
  /\ inputMessage = BlankText /\ transcript = BlankText

\* a spoken message has been sent and both fields are cleared
C17_WitnessSent ==
  /\ last.op = "sendMessage" /\ inputMessage = <<>> /\ transcript = <<>>
  /\ \E r \in Pending("chat") : r.message = TransferText

C19_WitnessRelogin ==
  /\ last.op = "sendMessage" /\ user # Null
  /\ transactions # <<>> /\ transactions[1] # Txn(user[1].id, 1)
  /\ \E r \in Pending("chat") : r.session_id = sessionId

====
